---- MODULE Spec2Model ----
(***************************************************************************)
(* Model of monitor_process.py: a monitor that launches a child process,   *)
(* samples its resource usage with `top` and `ls /proc/<pid>/fd` at a      *)
(* fixed interval and appends one tab-separated row per sample to          *)
(* <process>_log.tsv until the child exits.                                *)
(*                                                                         *)
(* Text is a sequence of one-character strings; a word that the program    *)
(* never looks inside (a column name, a user name) is one symbol.  Time is *)
(* counted in tenths of a second.                                          *)
(***************************************************************************)
EXTENDS Integers, Sequences, FiniteSets, TLC

(***************************************************************************)
(* Bounds of the model.                                                    *)
(***************************************************************************)
MaxRuns == 2        \* monitor runs on the same process name
MaxTicks == 3       \* loop iterations, over all runs, after which the child has exited
BufCap == 24        \* characters the file object holds back (8192 in CPython)

(***************************************************************************)
(* Program constants (tenths of a second, kilobytes).                      *)
(***************************************************************************)
TopDelay == 2       \* top -d 0.2
Overhead == 2       \* time.sleep(interval - 0.2)
KbPerMb == 1024     \* float(stats['VIRT']) / 1024

Intervals == {1, 5}         \* the interval argument: 0.1 s, 0.5 s
CpuCounts == {4}            \* os.cpu_count()
FdCounts == {0, 3}          \* entries of /proc/<pid>/fd of a running child

SP == " "
NL == "\n"
TAB == "\t"
Digit == <<"0", "1", "2", "3", "4", "5", "6", "7", "8", "9">>
DigitSet == {Digit[i] : i \in 1..10}

Max2(a, b) == IF a >= b THEN a ELSE b
Min2(a, b) == IF a <= b THEN a ELSE b

(***************************************************************************)
(* Python string and list primitives.                                      *)
(***************************************************************************)
\* str(n) for a non-negative integer
RECURSIVE Str(_)
Str(n) == IF n < 10 THEN <<Digit[n + 1]>> ELSE Str(n \div 10) \o <<Digit[(n % 10) + 1]>>

\* s.split(sep): cut at every separator, empty pieces kept
RECURSIVE Split(_, _)
Split(s, sep) ==
    IF \A i \in 1..Len(s) : s[i] # sep
    THEN <<s>>
    ELSE LET k == CHOOSE i \in 1..Len(s) : s[i] = sep /\ \A j \in 1..(i - 1) : s[j] # sep
         IN  <<SubSeq(s, 1, k - 1)>> \o Split(SubSeq(s, k + 1, Len(s)), sep)

\* sep.join(parts)
RECURSIVE Join(_, _)
Join(parts, sep) ==
    IF parts = <<>> THEN <<>>
    ELSE IF Len(parts) = 1 THEN parts[1]
    ELSE parts[1] \o <<sep>> \o Join(Tail(parts), sep)

\* lst[-3:-1]
SliceLast(lst) == SubSeq(lst, Max2(Len(lst) - 3, 0) + 1, Len(lst) - 1)

\* while '' in stat: stat.remove('')
RemoveEmpty(stat) == SelectSeq(stat, LAMBDA t : t # <<>>)

\* s.replace(',', '.')
ReplaceComma(s) == [i \in 1..Len(s) |-> IF s[i] = "," THEN "." ELSE s[i]]

RECURSIVE Flatten(_)
Flatten(ss) == IF ss = <<>> THEN <<>> ELSE ss[1] \o Flatten(Tail(ss))

DigitVal(c) == (CHOOSE i \in 1..10 : Digit[i] = c) - 1

RECURSIVE NatOf(_)
NatOf(ds) == IF ds = <<>> THEN 0 ELSE 10 * NatOf(SubSeq(ds, 1, Len(ds) - 1)) + DigitVal(ds[Len(ds)])

RECURSIVE Pow10(_)
Pow10(k) == IF k = 0 THEN 1 ELSE 10 * Pow10(k - 1)

\* float(s) succeeds on plain decimals: digits with at most one point
\* (the texts of this model hold no sign, exponent, inf or nan)
IsFloat(s) ==
    /\ \A i \in 1..Len(s) : s[i] \in DigitSet \cup {"."}
    /\ Cardinality({i \in 1..Len(s) : s[i] = "."}) <= 1
    /\ \E i \in 1..Len(s) : s[i] \in DigitSet

\* float(s) as the fraction num / den
FloatOf(s) ==
    LET digits == SelectSeq(s, LAMBDA c : c # ".")
        dots == {i \in 1..Len(s) : s[i] = "."}
        frac == IF dots = {} THEN 0 ELSE Len(s) - (CHOOSE i \in dots : TRUE)
    IN  [num |-> NatOf(digits), den |-> Pow10(frac)]

\* round(a / b) for a >= 0, b > 0: Python rounds halves to the even integer
RoundDiv(a, b) ==
    LET q == a \div b
        r == a % b
    IN  IF 2 * r < b THEN q
        ELSE IF 2 * r > b THEN q + 1
        ELSE IF q % 2 = 0 THEN q ELSE q + 1

(***************************************************************************)
(* _parse_top_stdout: the dictionary built from the last two lines of      *)
(* top's output.                                                           *)
(***************************************************************************)
TopTokens(stdout) ==
    LET stats == SliceLast(Split(stdout, NL))
    IN  Flatten([i \in 1..Len(stats) |-> RemoveEmpty(Split(stats[i], SP))])

parse_top_stdout(stdout) ==
    LET res == TopTokens(stdout)
        half == Len(res) \div 2
        keys == {res[i] : i \in 1..half}
        last(k) == CHOOSE i \in 1..half : res[i] = k /\ \A j \in (i + 1)..half : res[j] # k
    IN  [k \in keys |-> res[half + last(k)]]

VIRT == <<"VIRT">>
RES == <<"RES">>
CPU == <<"%CPU">>

(***************************************************************************)
(* get_cpu_and_memory: line is the source line that raised (0: none),      *)
(* val the strings [VMS, RSS, CPU].                                        *)
(***************************************************************************)
get_cpu_and_memory(stdout, ncpu) ==
    LET stats == parse_top_stdout(stdout)
        Bad(key, conv(_)) == key \notin DOMAIN stats \/ ~IsFloat(conv(stats[key]))
        Same(s) == s
        Val(key, conv(_), per) ==
            LET f == FloatOf(conv(stats[key])) IN RoundDiv(f.num, f.den * per)
    IN  IF Bad(VIRT, Same) THEN [line |-> 45, val |-> <<>>]
        ELSE IF Bad(RES, Same) THEN [line |-> 46, val |-> <<>>]
        ELSE IF Bad(CPU, ReplaceComma) THEN [line |-> 47, val |-> <<>>]
        ELSE [line |-> 0,
              val |-> <<Str(Val(VIRT, Same, KbPerMb)),
                        Str(Val(RES, Same, KbPerMb)),
                        Str(Val(CPU, ReplaceComma, ncpu))>>]

(***************************************************************************)
(* get_fd_count: non-empty lines of the listing.                           *)
(***************************************************************************)
get_fd_count_all(stdout) == Len(Split(stdout, NL))

get_fd_count(stdout) == Len(SelectSeq(Split(stdout, NL), LAMBDA n : n # <<>>))

(***************************************************************************)
(* What the two external commands print.                                   *)
(***************************************************************************)
\* top -b: every column right-aligned, so tokens are preceded by blanks
TopLine(tokens) == Flatten([i \in 1..Len(tokens) |-> <<SP, SP>> \o tokens[i]])

TopHeader ==
    <<(<<"PID">>), (<<"USER">>), (<<"PR">>), (<<"NI">>), VIRT, RES, (<<"SHR">>),
      (<<"S">>), CPU, (<<"%MEM">>), (<<"TIME+">>), (<<"COMMAND">>)>>

\* the value row of the child: virt, res, cpu are texts, command a token list
TopRow(virt, res, state, cpu, command) ==
    <<Str(426), (<<"root">>), Str(20), Str(0), virt, res, Str(0),
      (<<state>>), cpu, (<<"0", ".", "0">>), (<<"0:00.00">>)>> \o command

\* the text of top -b -n 2 -d 0.2 -p <pid>: it ends with the second
\* iteration's summary, a blank line, the header and the matching rows
TopStdout(hdr, vals) ==
    <<"summary">> \o <<NL>> \o <<NL>> \o TopLine(hdr) \o <<NL>>
        \o (IF vals = <<>> THEN <<>> ELSE TopLine(vals) \o <<NL>>)

\* value rows top prints for a running child
RunningRows ==
    { TopRow(Str(2560), Str(1536), "S", Str(12) \o <<",">> \o Str(5), <<(<<"sleep">>)>>),
      TopRow(Str(3584), Str(512), "R", Str(100) \o <<".">> \o Str(0),
             <<(<<"Web">>), (<<"Content">>)>>),
      TopRow(Str(2560), Str(1536), "S", Str(12) \o <<",">> \o Str(5),
             <<(<<"my">>), (<<"own">>), (<<"tool">>)>>),
      TopRow(Str(20) \o <<".">> \o Str(3) \o <<"g">>, Str(1536), "S",
             Str(0) \o <<".">> \o Str(0), <<(<<"sleep">>)>>) }

\* for a child that has exited and is not yet reaped: its zombie row, or no
\* matching row at all
ExitedRows ==
    { TopRow(Str(0), Str(0), "Z", Str(0) \o <<".">> \o Str(0), <<(<<"sleep">>)>>),
      <<>> }

\* ls /proc/<pid>/fd with n entries: one name per line
LsStdout(n) == Flatten([i \in 1..n |-> Str(i - 1) \o <<NL>>])

(***************************************************************************)
(* The log file: disk is what the file system holds, buf what the open     *)
(* file object still holds back.                                           *)
(***************************************************************************)
Header == <<(<<"TIME">>), (<<"VMS">>), (<<"RSS">>), CPU, (<<"FD">>)>>

\* file.write(s), default buffering: text stays in the file object until
\* it outgrows the buffer
file_write(f, s) ==
    LET b == f.buf \o s
    IN  IF Len(b) > BufCap THEN [disk |-> f.disk \o b, buf |-> <<>>]
        ELSE [disk |-> f.disk, buf |-> b]

\* leaving the with block closes the file, which flushes it
file_close(f) == [disk |-> f.disk \o f.buf, buf |-> <<>>]

\* time.asctime(): the wall clock to the second
asctime(t) == Str(t \div 10)

VARIABLES
    run,             \* number of this monitor run
    pc,              \* position of the main program
    interval,        \* the interval argument, in tenths of a second
    ncpu,            \* os.cpu_count()
    now,             \* wall clock, in tenths of a second
    child,           \* "none", "running", "zombie" (exited, not reaped), "reaped"
    returncode,      \* proc.returncode: "None" until a poll sees the exit
    exists,          \* os.path.exists(filename)
    disk,            \* content of the log file
    fileOpen,        \* the with block is entered
    buf,             \* text written and not yet flushed
    stats,           \* the list built by one loop iteration
    top,             \* the value row the last top printed (read: whether any)
    fdSeen,          \* entries the last ls listed, -1 when it listed nothing
    ticks,           \* loop iterations, over all runs, that wrote their row
    errLine,         \* source line of the exception that ended the run, 0: none
    terminateCalled, \* proc.terminate() was called
    sigSent,         \* terminate() had to signal a child not known to have exited
    produced         \* every sample the loop assembled, over all runs

vars == <<run, pc, interval, ncpu, now, child, returncode, exists, disk, fileOpen,
          buf, stats, top, fdSeen, ticks, errLine, terminateCalled, sigSent, produced>>

NoTop == [read |-> FALSE, vals |-> <<>>]

Init ==
    /\ run = 1
    /\ pc = "launch"
    /\ interval \in Intervals
    /\ ncpu \in CpuCounts
    /\ now = 0
    /\ child = "none"
    /\ returncode = "None"
    /\ exists = FALSE
    /\ disk = <<>>
    /\ fileOpen = FALSE
    /\ buf = <<>>
    /\ stats = <<>>
    /\ top = NoTop
    /\ fdSeen = -1
    /\ ticks = 0
    /\ errLine = 0
    /\ terminateCalled = FALSE
    /\ sigSent = FALSE
    /\ produced = <<>>

\* an exception raised inside the with block: the block closes the file and
\* the exception ends the program
Raise(line) ==
    /\ pc' = "crashed"
    /\ errLine' = line
    /\ disk' = IF fileOpen THEN file_close([disk |-> disk, buf |-> buf]).disk ELSE disk
    /\ buf' = <<>>
    /\ fileOpen' = FALSE

\* proc = subprocess.Popen(proc_name), before the file is touched
Launch_mut ==
    /\ pc = "launch"
    /\ \/ /\ child' = "running"
          /\ pc' = "open"
          /\ UNCHANGED <<errLine, exists, disk>>
       \/ /\ pc' = "crashed"
          /\ errLine' = 106
          /\ exists' = TRUE
          /\ disk' = IF exists THEN disk ELSE Join(Header, TAB) \o <<NL>>
          /\ UNCHANGED child
    /\ UNCHANGED <<run, interval, ncpu, now, returncode, fileOpen, buf, stats, top,
                   fdSeen, ticks, terminateCalled, sigSent, produced>>

Launch ==
    /\ pc = "launch"
    /\ \/ /\ child' = "running"
          /\ pc' = "open"
          /\ UNCHANGED errLine
       \/ /\ pc' = "crashed"
          /\ errLine' = 106
          /\ UNCHANGED child
    /\ UNCHANGED <<run, interval, ncpu, now, returncode, exists, disk, fileOpen, buf,
                   stats, top, fdSeen, ticks, terminateCalled, sigSent, produced>>

\* if os.path.exists(filename): ... else: write the column names
NeedsHeader_mut(ex) == TRUE

NeedsHeader(ex) == ~ex

OpenLog ==
    /\ pc = "open"
    /\ LET f0 == [disk |-> disk, buf |-> <<>>]
           f1 == IF NeedsHeader(exists)
                 THEN file_write(file_write(f0, Join(Header, TAB)), <<NL>>)
                 ELSE f0
       IN  /\ disk' = f1.disk
           /\ buf' = f1.buf
    /\ exists' = TRUE
    /\ fileOpen' = TRUE
    /\ pc' = "poll"
    /\ UNCHANGED <<run, interval, ncpu, now, child, returncode, stats, top, fdSeen,
                   ticks, errLine, terminateCalled, sigSent, produced>>

\* proc.poll(): the exit status once the child has exited, reaping it
poll(rc, ch) == IF rc # "None" THEN rc ELSE IF ch = "zombie" THEN "0" ELSE "None"

\* while proc.poll() == None
LoopCond_mut(status) == TRUE

LoopCond(status) == status = "None"

Poll ==
    /\ pc = "poll"
    /\ returncode' = poll(returncode, child)
    /\ child' = IF child = "zombie" THEN "reaped" ELSE child
    /\ IF LoopCond(poll(returncode, child))
       THEN /\ ticks < MaxTicks
            /\ pc' = "cpumem"
            /\ stats' = <<>>
            /\ top' = NoTop
            /\ fdSeen' = -1
       ELSE /\ pc' = "close"
            /\ UNCHANGED <<stats, top, fdSeen>>
    /\ UNCHANGED <<run, interval, ncpu, now, exists, disk, fileOpen, buf, ticks,
                   errLine, terminateCalled, sigSent, produced>>

\* stats.append(str(time.asctime())); stats += get_cpu_and_memory(proc)
SampleCpuMem ==
    /\ pc = "cpumem"
    /\ \E vals \in (IF child = "running" THEN RunningRows ELSE ExitedRows) :
         LET r == get_cpu_and_memory(TopStdout(TopHeader, vals), ncpu)
         IN  /\ top' = [read |-> TRUE, vals |-> vals]
             /\ now' = now + TopDelay
             /\ IF r.line = 0
                THEN /\ stats' = <<asctime(now)>> \o r.val
                     /\ pc' = "fd"
                     /\ UNCHANGED <<errLine, disk, buf, fileOpen>>
                ELSE /\ Raise(r.line)
                     /\ UNCHANGED stats
    /\ UNCHANGED <<run, interval, ncpu, child, returncode, exists, fdSeen, ticks,
                   terminateCalled, sigSent, produced>>

\* stats.append(str(get_fd_count(proc)))
SampleFd ==
    /\ pc = "fd"
    /\ \E n \in (IF child = "running" THEN FdCounts ELSE {-1}) :
         LET stdout == IF n < 0 THEN <<>> ELSE LsStdout(n)
             row == Append(stats, Str(get_fd_count(stdout)))
         IN  /\ fdSeen' = n
             /\ stats' = row
             /\ produced' = Append(produced, row)
    /\ pc' = "write"
    /\ UNCHANGED <<run, interval, ncpu, now, child, returncode, exists, disk, fileOpen,
                   buf, top, ticks, errLine, terminateCalled, sigSent>>

\* file.write('\t'.join(stats)); file.write('\n')
write_row_mut(f, row) == [disk |-> f.disk, buf |-> row \o <<NL>> \o f.buf]

write_row(f, row) == file_write(file_write(f, Join(row, TAB)), <<NL>>)

Write ==
    /\ pc = "write"
    /\ LET f == write_row([disk |-> disk, buf |-> buf], stats)
       IN  /\ disk' = f.disk
           /\ buf' = f.buf
    /\ ticks' = ticks + 1
    /\ pc' = "sleep"
    /\ UNCHANGED <<run, interval, ncpu, now, child, returncode, exists, fileOpen,
                   stats, top, fdSeen, errLine, terminateCalled, sigSent, produced>>

\* time.sleep(interval - 0.2): a negative length raises ValueError
SleepArg(iv) == iv - Overhead

Sleep ==
    /\ pc = "sleep"
    /\ IF SleepArg(interval) < 0
       THEN /\ Raise(100)
            /\ UNCHANGED now
       ELSE /\ now' = now + SleepArg(interval)
            /\ pc' = "poll"
            /\ UNCHANGED <<errLine, disk, buf, fileOpen>>
    /\ UNCHANGED <<run, interval, ncpu, child, returncode, exists, stats, top, fdSeen,
                   ticks, terminateCalled, sigSent, produced>>

\* the loop has ended: the with block is left and closes the file
CloseLog ==
    /\ pc = "close"
    /\ disk' = file_close([disk |-> disk, buf |-> buf]).disk
    /\ buf' = <<>>
    /\ fileOpen' = FALSE
    /\ pc' = "terminate"
    /\ UNCHANGED <<run, interval, ncpu, now, child, returncode, exists, stats, top,
                   fdSeen, ticks, errLine, terminateCalled, sigSent, produced>>

\* control reaches proc.terminate() only past both with blocks
TerminateReached_mut == pc \in {"terminate", "crashed"} /\ child # "none" /\ ~terminateCalled

TerminateReached == pc = "terminate"

\* proc.terminate(): nothing is sent to a child whose exit status is known
Terminate ==
    /\ TerminateReached
    /\ terminateCalled' = TRUE
    /\ returncode' = poll(returncode, child)
    /\ sigSent' = (sigSent \/ poll(returncode, child) = "None")
    /\ child' = IF child = "zombie" THEN "reaped" ELSE child
    /\ pc' = IF pc = "terminate" THEN "done" ELSE pc
    /\ UNCHANGED <<run, interval, ncpu, now, exists, disk, fileOpen, buf, stats, top,
                   fdSeen, ticks, errLine, produced>>

\* the child exits on its own, at any moment of the run
ChildExit ==
    /\ child = "running"
    /\ pc \notin {"done", "crashed"}
    /\ child' = "zombie"
    /\ UNCHANGED <<run, pc, interval, ncpu, now, returncode, exists, disk, fileOpen,
                   buf, stats, top, fdSeen, ticks, errLine, terminateCalled, sigSent,
                   produced>>

\* the same command line is run again
NextRun ==
    /\ pc \in {"done", "crashed"}
    /\ run < MaxRuns
    /\ run' = run + 1
    /\ pc' = "launch"
    /\ child' = "none"
    /\ returncode' = "None"
    /\ stats' = <<>>
    /\ top' = NoTop
    /\ fdSeen' = -1
    /\ errLine' = 0
    /\ terminateCalled' = FALSE
    /\ sigSent' = FALSE
    /\ UNCHANGED <<interval, ncpu, now, exists, disk, fileOpen, buf, ticks, produced>>

Next ==
    \/ Launch
    \/ OpenLog
    \/ Poll
    \/ SampleCpuMem
    \/ SampleFd
    \/ Write
    \/ Sleep
    \/ CloseLog
    \/ Terminate
    \/ ChildExit
    \/ NextRun

Spec == Init /\ [][Next]_vars

(***************************************************************************)
(* Reading the log back.                                                   *)
(***************************************************************************)
\* the file as the program has written it: flushed text, then buffered text
Log == disk \o buf

\* the complete lines of a text
Lines(text) == LET parts == Split(text, NL) IN SubSeq(parts, 1, Len(parts) - 1)

HeaderLine == Join(Header, TAB)

DataLines(text) == SelectSeq(Lines(text), LAMBDA l : l # HeaderLine)

\* the TIME field of a data line, in seconds
TimeOf(line) == NatOf(Split(line, TAB)[1])

IsPrefix(s, t) == Len(s) <= Len(t) /\ SubSeq(t, 1, Len(s)) = s

HeaderOnce(text) ==
    LET ls == Lines(text)
    IN  /\ Len(ls) >= 1
        /\ ls[1] = HeaderLine
        /\ \A i \in 2..Len(ls) : ls[i] # HeaderLine

(***************************************************************************)
(* C1.  Once proc.poll() has reported the child's exit, the loop is left   *)
(* in that same step: no sample is taken, no row is written, no sleep      *)
(* happens afterwards, and the run never goes back to sampling.            *)
(***************************************************************************)
C1_ExitImmediately ==
    [][(returncode = "None" /\ returncode' # "None") => (pc' = "close" /\ Log' = Log)]_vars

C1_StoppedStays ==
    [][(returncode # "None" /\ run' = run)
          => /\ returncode' = returncode
             /\ pc' \in {"close", "terminate", "done"}
             /\ Log' = Log
             /\ produced' = produced
             /\ ticks' = ticks
             /\ now' = now]_vars

C1_Thm == C1_ExitImmediately /\ C1_StoppedStays

C1_Witness == pc = "done" /\ returncode = "0" /\ Len(DataLines(disk)) >= 1

(***************************************************************************)
(* C2 (the claim as stated).  When top prints no row for the child, or the *)
(* child has already exited, the tick is skipped and no error of the       *)
(* extraction (lines 45-47) ends the run.                                  *)
(***************************************************************************)
C2_Claim ==
    (top.read /\ (top.vals = <<>> \/ child # "running")) => errLine \notin {45, 46, 47}

(***************************************************************************)
(* C3.  A run that finds no log file writes the header line first; a run   *)
(* that finds one writes no header and only appends.  The file, once it    *)
(* exists, holds exactly one header line, as its first line.               *)
(***************************************************************************)
C3_Inv ==
    /\ exists => HeaderOnce(Log)
    /\ ~exists => Log = <<>>
    /\ ~fileOpen => buf = <<>>

C3_Append ==
    [][/\ IsPrefix(disk, disk')
       /\ IsPrefix(Log, Log')
       /\ (~exists /\ exists') => Lines(Log') = <<HeaderLine>>
       /\ (exists /\ pc = "open") => Log' = Log]_vars

C3_Thm == []C3_Inv /\ C3_Append

C3_Witness ==
    run = 2 /\ pc = "sleep" /\ Len(Lines(disk)) = 2 /\ Len(Lines(buf)) = 1

(***************************************************************************)
(* C4.  When subprocess.Popen raises, the program ends at once and the log *)
(* file is neither created nor changed.                                    *)
(***************************************************************************)
C4_Untouched ==
    [][(pc = "launch" /\ pc' = "crashed")
          => /\ errLine' = 106
             /\ exists' = exists
             /\ disk' = disk
             /\ buf' = buf
             /\ ~fileOpen'
             /\ child' = "none"]_vars

C4_Thm == [](errLine = 106 => (pc = "crashed" /\ ~fileOpen /\ buf = <<>>)) /\ C4_Untouched

C4_Witness == pc = "crashed" /\ errLine = 106 /\ ~exists /\ disk = <<>>

(***************************************************************************)
(* C5.  After its header line the log holds exactly the samples the loop   *)
(* assembled, in the order it assembled them, one line per written tick,   *)
(* and their TIME fields never decrease.                                   *)
(***************************************************************************)
C5_Thm ==
    LET want == IF pc = "write" THEN SubSeq(produced, 1, Len(produced) - 1) ELSE produced
        text == Flatten([i \in 1..Len(want) |-> Join(want[i], TAB) \o <<NL>>])
        times == [i \in 1..Len(want) |-> NatOf(want[i][1])]
    IN  /\ Len(want) = ticks
        /\ Log = (IF exists THEN HeaderLine \o <<NL>> ELSE <<>>) \o text
        /\ \A i \in 1..(Len(times) - 1) : times[i] <= times[i + 1]

C5_Witness ==
    LET rows == DataLines(Log)
    IN  pc = "sleep" /\ Len(rows) >= 2 /\ TimeOf(rows[1]) < TimeOf(rows[Len(rows)])

(***************************************************************************)
(* C6.  get_fd_count raises nothing: it yields 0 when ls lists nothing and *)
(* the number of entries of the directory otherwise.                       *)
(***************************************************************************)
C6_Thm ==
    /\ errLine \notin 60..63
    /\ pc = "write" => stats[5] = Str(IF fdSeen < 0 THEN 0 ELSE fdSeen)

C6_Witness == pc = "write" /\ fdSeen = -1 /\ child = "zombie"

(***************************************************************************)
(* C7 (the claim as stated).  The sleep length is max(0, interval - 0.2)   *)
(* and time.sleep never fails.                                             *)
(***************************************************************************)
C7_Claim ==
    /\ pc = "sleep" => SleepArg(interval) = Max2(0, interval - Overhead)
    /\ errLine # 100

(***************************************************************************)
(* C8 (the claim as stated).  The dictionary of _parse_top_stdout sends    *)
(* the i-th header token to the i-th value token, for every i up to the    *)
(* shorter of the two rows, and sends no header token anywhere else.       *)
(***************************************************************************)
C8_Claim ==
    top.read =>
        LET d == parse_top_stdout(TopStdout(TopHeader, top.vals))
            n == Len(TopHeader)
            m == Len(top.vals)
        IN  /\ \A i \in 1..Min2(n, m) :
                 TopHeader[i] \in DOMAIN d /\ d[TopHeader[i]] = top.vals[i]
            /\ \A i \in 1..n :
                 TopHeader[i] \in DOMAIN d => (i <= m /\ d[TopHeader[i]] = top.vals[i])

(***************************************************************************)
(* C9 (the claim as stated).  While the loop sleeps, every row written so  *)
(* far is in the file itself, none in the file object's buffer.            *)
(***************************************************************************)
C9_Claim == pc = "sleep" => (buf = <<>> /\ Len(DataLines(disk)) = ticks)

(***************************************************************************)
(* C10.  proc.terminate() is called only after the loop has ended because  *)
(* a poll saw the child's exit: never on a run that an exception ended,    *)
(* and never so that a signal goes to a child not known to have exited.    *)
(***************************************************************************)
C10_Thm ==
    /\ terminateCalled => (returncode # "None" /\ errLine = 0 /\ pc = "done")
    /\ errLine # 0 => ~terminateCalled
    /\ ~sigSent

C10_Witness == terminateCalled /\ pc = "done" /\ ticks >= 1

====
